---- MODULE Spec2Model ----
(***************************************************************************)
(* A model of the editor core of BINA|studio (src/app.js): the open tabs,  *)
(* the active tab, the text surface (the textarea), the per-frame          *)
(* coalesced recompute (scheduleHighlight), the gutter, the status bar and *)
(* the two structural keys (Tab, Enter).                                   *)
(*                                                                         *)
(* Text is a sequence of one-character strings.  Every function of app.js  *)
(* that changes state is an operator from a state record to a state        *)
(* record, composed in the order the code calls them; an action applies    *)
(* one event handler to the current state.                                 *)
(*                                                                         *)
(* renderTabs() ends with a call of updateStatusFile(), which app.js never *)
(* defines.  Whether the page supplies it is fixed when the page is built: *)
(* updateStatusFileDefined is chosen in Init and never changes.  Where it  *)
(* is not supplied the call raises a ReferenceError, which ends the        *)
(* running handler at that point.                                          *)
(*                                                                         *)
(* The regular expression literal of highlightCSS (app.js:226) is not      *)
(* closed: a browser rejects the script when it parses it, and then no     *)
(* statement of app.js runs and no listener is registered.  parsed is      *)
(* chosen in Init: FALSE is the page with the script as it stands, TRUE    *)
(* the page once that literal is closed, which is the program every        *)
(* handler below belongs to.                                               *)
(*                                                                         *)
(* Left out: the highlight overlay's markup and scroll offsets, which      *)
(* element has the focus (loadTabContent's timer gives it to the textarea; *)
(* a key may be released there in any state), and the language inferred    *)
(* from a file name (every node names its language).  lastOp, edits,       *)
(* clicks and switchedSince record the run: no handler reads them.         *)
(*                                                                         *)
(* The tokenizer is a pure function of its arguments; it is modelled on    *)
(* its own (highlightCode, highlightMode, highlighted), for the three rule *)
(* sets and the fallback.                                                  *)
(***************************************************************************)
EXTENDS Integers, Sequences, FiniteSets, TLC

VARIABLES
    parsed,                  \* has the browser accepted app.js and run it?
    updateStatusFileDefined, \* does the page define updateStatusFile()?
    pushed,                  \* the nodes sampleFiles.push has added (app.js:374)
    expanded,                \* node.expanded of each folder of sampleFiles, by name
    openTabs,                \* app.js:62
    activeTabId,             \* app.js:63
    value,                   \* editorTA.value
    selectionStart,          \* editorTA.selectionStart
    selectionEnd,            \* editorTA.selectionEnd
    datasetTabId,            \* editorTA.dataset.tabId
    raf,                     \* app.js:264 (0 is null)
    frameCallbacks,          \* the browser's pending animation-frame callbacks
    timers,                  \* pending zero-delay callbacks (captured indents)
    gutter,                  \* gutterEl's entries
    statusFile,              \* statusFile.textContent
    statusMode,              \* statusMode.textContent
    statusPos,               \* statusPos.textContent as <<line, column>>
    lastOp,                  \* the handler that ran last, its argument, whether it threw
    edits,                   \* editing keystrokes so far
    clicks,                  \* clicks on the explorer and the tab strip so far
    switchedSince,           \* per pending timer: has another Tab been loaded since it was set?
    highlightCode,           \* highlightByMode's argument code, when called on its own
    highlightMode,           \* highlightByMode's argument mode
    highlighted              \* what that call returned

vars == <<parsed, updateStatusFileDefined, pushed, expanded, openTabs, activeTabId, value, selectionStart,
          selectionEnd, datasetTabId, raf, frameCallbacks, timers, gutter,
          statusFile, statusMode, statusPos, lastOp, edits, clicks,
          switchedSince, highlightCode, highlightMode, highlighted>>

----------------------------------------------------------------------------
(* Bounds of the model. *)

\* Most editing keystrokes (characters typed, Tab keys, Enter keys) in a session.
MaxEdits == 1
\* Longest text surface value the key-handling specification starts from.
MaxText == 4
\* Longest text the caret-and-gutter specification starts from.
MaxCaretText == 5
\* Farthest offset a click or a caret key brings the selection to.
MaxOffset == 3
\* Most clicks on the explorer (files and folder labels), the new-file button
\* and the tab strip in a session.
MaxClicks == 4
\* Most files the new-file button adds in a session.
MaxNewFiles == 1

----------------------------------------------------------------------------
(* Characters and text. *)

SP == " "
TAB == "\t"
NL == "\n"

null == <<>>

Min(a, b) == IF a < b THEN a ELSE b

\* String.prototype.slice(a, b) for 0 <= a, 0 <= b.
slice(s, a, b) == SubSeq(s, Min(a, Len(s)) + 1, Min(b, Len(s)))

\* String.prototype.slice(a)
sliceFrom(s, a) == SubSeq(s, Min(a, Len(s)) + 1, Len(s))

\* The (one-based) places of the character c in s.
indexesOf(s, c) == {i \in DOMAIN s : s[i] = c}

\* s.split('\n').length: one piece more than there are line breaks.
splitLength(s) == Cardinality(indexesOf(s, NL)) + 1

\* s.lastIndexOf('\n'): zero-based, -1 when there is none.
lastIndexOfNL(s) ==
    LET at == indexesOf(s, NL)
    IN  IF at = {} THEN -1
        ELSE (CHOOSE i \in at : \A j \in at : j <= i) - 1

\* s.replace(/\t/g, '  '): the text up to the first tab character, two
\* spaces, and the rest of the text treated alike.
RECURSIVE replaceTabs(_)
replaceTabs(s) ==
    LET at == indexesOf(s, TAB)
    IN  IF at = {} THEN s
        ELSE LET i == CHOOSE i \in at : \A j \in at : i <= j
             IN  SubSeq(s, 1, i - 1) \o <<SP, SP>>
                     \o replaceTabs(SubSeq(s, i + 1, Len(s)))

\* The longest prefix of s made of spaces and tabs: the group ([ \t]*).
RECURSIVE whitespaceRun(_)
whitespaceRun(s) ==
    IF s # <<>> /\ Head(s) \in {SP, TAB}
    THEN <<Head(s)>> \o whitespaceRun(Tail(s))
    ELSE <<>>

\* Mutant of lastLineIndent: the run is taken at the start of the text.
firstLineIndent(upto) == whitespaceRun(upto)

\* upto.match(/(^|\n)([ \t]*)[^\n]*$/)[2]: without the m flag the match
\* starts at the last line break of upto (or at its start), so group 2 is the
\* whitespace run that opens the last line of upto.
lastLineIndent(upto) == whitespaceRun(sliceFrom(upto, lastIndexOfNL(upto) + 1))

----------------------------------------------------------------------------
(* The sample project (app.js:14-44): two folders and a file, with the     *)
(* texts the files ship with.                                              *)

indexHtml ==
    <<"<", "!", "d", "o", "c", "t", "y", "p", "e", SP, "h", "t", "m", "l",
       ">", NL, "<", "h", "t", "m", "l", ">", NL, SP, SP, "<", "h", "e",
       "a", "d", ">", NL, SP, SP, SP, SP, "<", "m", "e", "t", "a", SP, "c",
       "h", "a", "r", "s", "e", "t", "=", "\"", "u", "t", "f", "-", "8",
       "\"", SP, "/", ">", NL, SP, SP, SP, SP, "<", "t", "i", "t", "l",
       "e", ">", "B", "I", "N", "A", "|", "s", "t", "u", "d", "i", "o", SP,
       "d", "e", "m", "o", "<", "/", "t", "i", "t", "l", "e", ">", NL, SP,
       SP, "<", "/", "h", "e", "a", "d", ">", NL, SP, SP, "<", "b", "o",
       "d", "y", ">", NL, SP, SP, SP, SP, "<", "h", "1", ">", "H", "e",
       "l", "l", "o", SP, "f", "r", "o", "m", SP, "B", "I", "N", "A", "|",
       "s", "t", "u", "d", "i", "o", "<", "/", "h", "1", ">", NL, SP, SP,
       SP, SP, "<", "s", "c", "r", "i", "p", "t", SP, "s", "r", "c", "=",
       "\"", "a", "p", "p", ".", "j", "s", "\"", ">", "<", "/", "s", "c",
       "r", "i", "p", "t", ">", NL, SP, SP, "<", "/", "b", "o", "d", "y",
       ">", NL, "<", "/", "h", "t", "m", "l", ">" >>

styleCss ==
    <<"b", "o", "d", "y", SP, "{", NL, SP, SP, "f", "o", "n", "t", "-",
       "f", "a", "m", "i", "l", "y", ":", SP, "I", "n", "t", "e", "r", ",",
       SP, "s", "a", "n", "s", "-", "s", "e", "r", "i", "f", ";", NL, SP,
       SP, "b", "a", "c", "k", "g", "r", "o", "u", "n", "d", ":", SP, "l",
       "i", "n", "e", "a", "r", "-", "g", "r", "a", "d", "i", "e", "n",
       "t", "(", "1", "3", "5", "d", "e", "g", ",", "#", "0", "7", "1",
       "0", "2", "0", SP, "0", "%", ",", SP, "#", "0", "4", "1", "2", "2",
       "3", SP, "1", "0", "0", "%", ")", ";", NL, "}" >>

appJs ==
    <<"/", "/", SP, "T", "i", "n", "y", SP, "d", "e", "m", "o", SP, "a",
       "p", "p", NL, "c", "o", "n", "s", "o", "l", "e", ".", "l", "o", "g",
       "(", "'", "W", "e", "l", "c", "o", "m", "e", SP, "t", "o", SP, "B",
       "I", "N", "A", "|", "s", "t", "u", "d", "i", "o", "'", ")", ";" >>

readmeMd ==
    <<"#", SP, "S", "a", "m", "p", "l", "e", SP, "P", "r", "o", "j", "e",
       "c", "t", NL, "T", "h", "i", "s", SP, "i", "s", SP, "a", SP, "d",
       "e", "m", "o", "." >>

file(name, language, content) ==
    [type |-> "file", name |-> name, language |-> language, content |-> content]

folder(name, open, children) ==
    [type |-> "folder", name |-> name, expanded |-> open, children |-> children]

\* sampleFiles as the script creates it: every folder is expanded.
sampleProject ==
    << folder("public", TRUE, << file("index.html", "html", indexHtml),
                                 file("style.css", "css", styleCss) >>),
       folder("src", TRUE, << file("app.js", "js", appJs) >>),
       file("README.md", "md", readmeMd) >>

\* The names of the folders of the tree, and their state as created.
Folders == {sampleProject[i].name : i \in {j \in DOMAIN sampleProject :
                                            sampleProject[j].type = "folder"}}

allExpanded == [name \in Folders |-> TRUE]

\* sampleFiles: the tree the script created, each folder as the clicks on
\* its label have left it, and what was pushed to the tree since; where the
\* script was rejected there is none.
sampleFiles ==
    IF parsed
    THEN [i \in DOMAIN sampleProject |->
            IF sampleProject[i].type = "folder"
            THEN [sampleProject[i] EXCEPT !.expanded = expanded[sampleProject[i].name]]
            ELSE sampleProject[i]] \o pushed
    ELSE <<>>

\* The file nodes of a tree, in depth-first order, whatever the state of
\* its folders.
RECURSIVE fileNodes(_)
fileNodes(nodes) ==
    IF nodes = <<>> THEN <<>>
    ELSE (IF Head(nodes).type = "folder" THEN fileNodes(Head(nodes).children)
          ELSE <<Head(nodes)>>) \o fileNodes(Tail(nodes))

\* renderTree(nodes, container): the file nodes that get an element and its
\* listeners, in the order they are met.  The children of a folder are
\* rendered only when the folder is expanded.
RECURSIVE renderTree(_)
renderTree(nodes) ==
    IF nodes = <<>> THEN <<>>
    ELSE (IF Head(nodes).type = "folder"
          THEN (IF Head(nodes).expanded THEN renderTree(Head(nodes).children)
                ELSE <<>>)
          ELSE <<Head(nodes)>>) \o renderTree(Tail(nodes))

\* findFirstFile(nodes) of openFirst: the first file of the tree, depth
\* first; null when the tree holds none.
findFirstFile(nodes) ==
    IF fileNodes(nodes) = <<>> THEN null ELSE Head(fileNodes(nodes))

\* The file nodes the explorer shows: a click on one opens it.
Nodes == {renderTree(sampleFiles)[i] : i \in DOMAIN renderTree(sampleFiles)}

\* The file nodes of the tree, shown or not.
Files == {fileNodes(sampleFiles)[i] : i \in DOMAIN fileNodes(sampleFiles)}

\* The files the user opens in the editing session.
EditNodes == {n \in Nodes : n.name \in {"index.html", "app.js"}}

\* The suffixes Math.random().toString(36).slice(2,9) may yield: two calls
\* may yield the same one.
Randoms == {"r1", "r2"}

\* uid(p): `${p}-${random}`.  The random part holds no '-', so the pair
\* <<p, random>> is the id.
uid(p, r) == <<p, r>>

TabIds == {uid(n.name, r) : n \in Files, r \in Randoms}

\* tab.language.toUpperCase()
toUpperCase(l) ==
    CASE l = "html" -> "HTML"
      [] l = "css"  -> "CSS"
      [] l = "js"   -> "JS"
      [] l = "md"   -> "MD"
      [] OTHER      -> "PLAINTEXT"

----------------------------------------------------------------------------
(* The state the handlers work on, as a record.  threw is set when the     *)
(* running handler has raised: what the code would have done after that    *)
(* point is not done.                                                      *)

St == [ openTabs |-> openTabs, activeTabId |-> activeTabId, value |-> value,
        selectionStart |-> selectionStart, selectionEnd |-> selectionEnd,
        datasetTabId |-> datasetTabId, raf |-> raf,
        frameCallbacks |-> frameCallbacks, timers |-> timers,
        gutter |-> gutter, statusFile |-> statusFile,
        statusMode |-> statusMode, statusPos |-> statusPos,
        defined |-> updateStatusFileDefined, threw |-> FALSE ]

\* The page before app.js has opened anything: no tab, an empty textarea,
\* an empty gutter and status bar.
PageLoaded(defined) ==
    [ openTabs |-> <<>>, activeTabId |-> null, value |-> <<>>,
      selectionStart |-> 0, selectionEnd |-> 0, datasetTabId |-> null,
      raf |-> 0, frameCallbacks |-> {}, timers |-> <<>>, gutter |-> <<>>,
      statusFile |-> "", statusMode |-> "", statusPos |-> <<0, 0>>,
      defined |-> defined, threw |-> FALSE ]

\* openTabs.findIndex(pred), one-based; 0 when no tab satisfies it.
findIndex(tabs, Pred(_)) ==
    IF \E i \in DOMAIN tabs : Pred(tabs[i])
    THEN CHOOSE i \in DOMAIN tabs :
            Pred(tabs[i]) /\ \A j \in 1..(i - 1) : ~Pred(tabs[j])
    ELSE 0

\* openTabs.splice(idx, 1)
splice(tabs, idx) == SubSeq(tabs, 1, idx - 1) \o SubSeq(tabs, idx + 1, Len(tabs))

\* editorTA.value = v: the textarea takes the text; when it differs from the
\* text it held, the caret moves to its end and the selection collapses.
setValue(s, v) ==
    IF v = s.value THEN s
    ELSE [s EXCEPT !.value = v, !.selectionStart = Len(v), !.selectionEnd = Len(v)]

\* editorTA.selectionStart = editorTA.selectionEnd = p
setSelection(s, p) ==
    [s EXCEPT !.selectionStart = Min(p, Len(s.value)),
              !.selectionEnd = Min(p, Len(s.value))]

\* The textarea's own insertion of typed text: it replaces the selection and
\* leaves the caret after the inserted text.
nativeInsert(s, text) ==
    [s EXCEPT !.value = slice(s.value, 0, s.selectionStart) \o text
                            \o sliceFrom(s.value, s.selectionEnd),
              !.selectionStart = s.selectionStart + Len(text),
              !.selectionEnd = s.selectionStart + Len(text)]

\* Mutant of updateGutter: the line breaks are counted, not the lines.
updateGutterCountsBreaks(s) ==
    [s EXCEPT !.gutter = [i \in 1..(splitLength(s.value) - 1) |-> i]]

updateGutter(s) ==
    LET lines == splitLength(s.value)
    IN  [s EXCEPT !.gutter = [i \in 1..lines |-> i]]

\* Mutant of updateCaretStatus: the column is counted from zero.
updateCaretStatusFromZero(s) ==
    LET upto == slice(s.value, 0, s.selectionStart)
    IN  [s EXCEPT !.statusPos = <<splitLength(upto),
                                  s.selectionStart - lastIndexOfNL(upto) - 1>>]

updateCaretStatus(s) ==
    LET pos  == s.selectionStart
        upto == slice(s.value, 0, pos)
        line == splitLength(upto)
        col  == pos - lastIndexOfNL(upto)
    IN  [s EXCEPT !.statusPos = <<line, col>>]

\* requestAnimationFrame's handle: a positive number no pending callback
\* has (a cancelled handle plays no part any more, so it may be named again).
newHandle(pending) == CHOOSE h \in 1..(Cardinality(pending) + 1) : h \notin pending

\* Mutant of scheduleHighlight: the pending callback is not cancelled.
scheduleHighlightNoCancel(s) ==
    LET h == newHandle(s.frameCallbacks)
    IN  [s EXCEPT !.raf = h, !.frameCallbacks = s.frameCallbacks \cup {h}]

scheduleHighlight(s) ==
    LET pending == IF s.raf # 0 THEN s.frameCallbacks \ {s.raf}
                   ELSE s.frameCallbacks
        h == newHandle(pending)
    IN  [s EXCEPT !.raf = h, !.frameCallbacks = pending \cup {h}]

\* Mutant of recompute: the text is not written to the active Tab.
recomputeKeepsContent(s) == updateCaretStatus(updateGutter([s EXCEPT !.raf = 0]))

\* Mutant of recompute: the text is stored as it is, tab characters
\* included.
recomputeKeepsTabs(s) ==
    LET idx == findIndex(s.openTabs, LAMBDA t : t.id = s.activeTabId)
        s1  == [s EXCEPT !.raf = 0,
                         !.openTabs = IF idx # 0
                                      THEN [s.openTabs EXCEPT ![idx].content = s.value]
                                      ELSE s.openTabs]
    IN  updateCaretStatus(updateGutter(s1))

\* The callback scheduleHighlight hands to requestAnimationFrame: the
\* active Tab's content becomes the text with its tabs expanded (the
\* textarea keeps its text), then the gutter and the caret status follow.
recompute(s) ==
    LET idx  == findIndex(s.openTabs, LAMBDA t : t.id = s.activeTabId)
        code == replaceTabs(s.value)
        s1   == [s EXCEPT !.raf = 0,
                          !.openTabs = IF idx # 0
                                       THEN [s.openTabs EXCEPT ![idx].content = code]
                                       ELSE s.openTabs]
    IN  updateCaretStatus(updateGutter(s1))

loadTabContent(s, tab) ==
    LET s1 == setValue(s, tab.content)
        s2 == [s1 EXCEPT !.datasetTabId = tab.id,
                         !.statusMode = toUpperCase(tab.language),
                         !.statusFile = tab.name]
    IN  updateGutter(scheduleHighlight(s2))

\* updateStatusFile() is called by renderTabs and defined nowhere in app.js.
\* Where the page defines it, it shows the active tab's name, or 'No file'.
updateStatusFile(s) ==
    IF ~s.defined THEN [s EXCEPT !.threw = TRUE]
    ELSE LET idx == findIndex(s.openTabs, LAMBDA t : t.id = s.activeTabId)
         IN  [s EXCEPT !.statusFile = IF idx # 0 THEN s.openTabs[idx].name
                                      ELSE "No file"]

\* The tab strip is rebuilt from openTabs and activeTabId, one button and one
\* close mark per open tab; then the status is updated.
renderTabs(s) == updateStatusFile(s)

createTab(s, fileNode, r) ==
    LET id  == uid(fileNode.name, r)
        tab == [id |-> id, name |-> fileNode.name, language |-> fileNode.language,
                content |-> fileNode.content]
        s1  == [s EXCEPT !.openTabs = Append(s.openTabs, tab), !.activeTabId = id]
        s2  == renderTabs(s1)
    IN  IF s2.threw THEN s2 ELSE loadTabContent(s2, tab)

\* Mutant of openFileTab: the open Tabs are not searched.
openFileTabAlwaysCreate(s, node, r) == createTab(s, node, r)

openFileTab(s, node, r) ==
    LET idx == findIndex(s.openTabs, LAMBDA t : t.name = node.name)
    IN  IF idx # 0
        THEN LET existing == s.openTabs[idx]
                 s1 == renderTabs([s EXCEPT !.activeTabId = existing.id])
             IN  IF s1.threw THEN s1 ELSE loadTabContent(s1, existing)
        ELSE createTab(s, node, r)

\* Mutant of tabClick: the handler stores the text surface's text in the Tab
\* it leaves.
tabClickStoresText(s, t) ==
    LET idx == findIndex(s.openTabs, LAMBDA u : u.id = s.activeTabId)
        s1  == IF idx = 0 THEN s
               ELSE [s EXCEPT !.openTabs[idx].content = replaceTabs(s.value)]
    IN  renderTabs(loadTabContent([s1 EXCEPT !.activeTabId = t.id], t))

\* The click handler of a tab's button.
tabClick(s, t) ==
    renderTabs(loadTabContent([s EXCEPT !.activeTabId = t.id], t))

\* closeTab's choice of the Tab to activate, from the Tabs that remain and
\* the (one-based) place the closed Tab had: the previous one, else the
\* first, else none.
nextActiveFirst(rest, idx) == IF rest # <<>> THEN rest[1].id ELSE null

nextActive(rest, idx) ==
    IF idx - 1 >= 1 THEN rest[idx - 1].id
    ELSE IF rest # <<>> THEN rest[1].id
    ELSE null

\* closeTab with no Tab left: the editor is cleared.
clearEditorKeepGutter(s) ==
    [setValue(s, <<>>) EXCEPT !.statusFile = "No file", !.statusMode = "Plain Text"]

clearEditor(s) ==
    [updateGutter(setValue(s, <<>>))
        EXCEPT !.statusFile = "No file", !.statusMode = "Plain Text"]

\* closeTab once the Tab is found at idx; wasActive is activeTabId === id.
closeFound(s, idx, wasActive) ==
    LET rest == splice(s.openTabs, idx)
        s1   == [s EXCEPT !.openTabs = rest]
        next == nextActive(rest, idx)
        s2   == [s1 EXCEPT !.activeTabId = next]
        s3   == IF ~wasActive THEN s1
                ELSE IF next # null
                     THEN loadTabContent(s2,
                            rest[findIndex(rest, LAMBDA t : t.id = next)])
                     ELSE clearEditor(s2)
    IN  renderTabs(s3)

\* Mutants of closeTab: the active Tab is re-chosen on every close; an id
\* that is not open is not turned away (splice(-1, 1) removes the last Tab).
closeTabAlwaysReselect(s, id) ==
    LET idx == findIndex(s.openTabs, LAMBDA t : t.id = id)
    IN  IF idx = 0 THEN s ELSE closeFound(s, idx, TRUE)

closeTabNoGuard(s, id) ==
    LET idx == findIndex(s.openTabs, LAMBDA t : t.id = id)
    IN  IF idx = 0
        THEN renderTabs([s EXCEPT !.openTabs =
                            SubSeq(s.openTabs, 1, Len(s.openTabs) - 1)])
        ELSE closeFound(s, idx, s.activeTabId = id)

closeTab(s, id) ==
    LET idx == findIndex(s.openTabs, LAMBDA t : t.id = id)
    IN  IF idx = 0 THEN s ELSE closeFound(s, idx, s.activeTabId = id)

\* Mutant of the Tab key's handler: the caret is not put back after the
\* value is assigned.
keydownTabCaretLeft(s) ==
    scheduleHighlight(setValue(s, slice(s.value, 0, s.selectionStart) \o <<SP, SP>>
                                    \o sliceFrom(s.value, s.selectionEnd)))

\* The keydown handler, Tab key.
keydownTab(s) ==
    LET start == s.selectionStart
        end   == s.selectionEnd
        val   == s.value
        s1    == setValue(s, slice(val, 0, start) \o <<SP, SP>> \o sliceFrom(val, end))
    IN  scheduleHighlight(setSelection(s1, start + 2))

\* The keydown handler, Enter key: the indent it captures.
capturedIndent(s) == lastLineIndent(slice(s.value, 0, s.selectionStart))

\* The Enter key: the handler captures the indent and defers its insertion;
\* then the textarea inserts the line break and its input event schedules a
\* recompute.
keydownEnter(s) ==
    LET s1 == [s EXCEPT !.timers = Append(s.timers, capturedIndent(s))]
    IN  scheduleHighlight(nativeInsert(s1, <<NL>>))

\* The deferred callback of the Enter key.
deferredIndent(s, indent) ==
    LET cur == s.selectionStart
        s1  == setValue(s, slice(s.value, 0, cur) \o indent \o sliceFrom(s.value, cur))
    IN  scheduleHighlight(setSelection(s1, cur + Len(indent)))

----------------------------------------------------------------------------
(* The tokenizer: escapeHtml, the rule sets highlightJS, highlightCSS and  *)
(* highlightHTML, and highlightByMode's choice between them.  A regular    *)
(* expression's global replace is a scan from the left: where the          *)
(* expression matches, the match is replaced and the scan goes on after    *)
(* it; elsewhere the character is kept.  No expression of app.js matches   *)
(* the empty text.  highlightCSS is the function with the literal of its   *)
(* first expression closed, a lazy block-comment expression with flag g.   *)
(*                                                                         *)
(* A character is a string; the characters a TLA+ string cannot hold are   *)
(* named by their code point ("U2028") or by name ("BACKTICK").            *)

\* s.replace(/c/g, rep) for a single character c: the text up to the first
\* c, rep, and the rest of the text treated alike.
RECURSIVE replaceChar(_, _, _)
replaceChar(s, c, rep) ==
    LET at == indexesOf(s, c)
    IN  IF at = {} THEN s
        ELSE LET i == CHOOSE i \in at : \A j \in at : i <= j
             IN  SubSeq(s, 1, i - 1) \o rep
                     \o replaceChar(SubSeq(s, i + 1, Len(s)), c, rep)

escapeHtml(s) ==
    replaceChar(replaceChar(replaceChar(s, "&", <<"&", "a", "m", "p", ";">>), "<", <<"&", "l", "t", ";">>), ">", <<"&", "g", "t", ";">>)

CR == "\r"
LS == "U2028"
PS == "U2029"
BACKTICK == "BACKTICK"

\* The characters . does not match, and before which $ matches under the m
\* flag: the line terminators of ECMAScript.
isLineTerminator(c) == c \in {NL, CR, LS, PS}

\* \s: the white space and the line terminators of ECMAScript.
isSpace(c) == c \in
    {SP, TAB, NL, CR, "\f", "U000B", "U00A0", "U1680", "U2000", "U2001",
     "U2002", "U2003", "U2004", "U2005", "U2006", "U2007", "U2008", "U2009",
     "U200A", LS, PS, "U202F", "U205F", "U3000", "UFEFF"}

\* \d and \w
isDigit(c) == c \in {"0", "1", "2", "3", "4", "5", "6", "7", "8", "9"}

isLower(c) == c \in
    {"a", "b", "c", "d", "e", "f", "g", "h", "i", "j", "k", "l", "m", "n",
     "o", "p", "q", "r", "s", "t", "u", "v", "w", "x", "y", "z"}

isUpper(c) == c \in
    {"A", "B", "C", "D", "E", "F", "G", "H", "I", "J", "K", "L", "M", "N",
     "O", "P", "Q", "R", "S", "T", "U", "V", "W", "X", "Y", "Z"}

isLetter(c) == isLower(c) \/ isUpper(c)

isWord(c) == isLetter(c) \/ isDigit(c) \/ c = "_"

\* Is c a character of a class of highlightCSS or highlightHTML?  A class
\* is named as the expression writes it.
inClass(class, c) ==
    CASE class = "\\s"            -> isSpace(c)
      [] class = "[A-Za-z0-9\\-_]" -> isLetter(c) \/ isDigit(c) \/ c \in {"-", "_"}
      [] class = "[a-z-]"         -> isLower(c) \/ c = "-"
      [] class = "[^;}\\n]"        -> c \notin {";", "}", NL}
      [] class = "[a-zA-Z0-9\\-]"  -> isLetter(c) \/ isDigit(c) \/ c = "-"
      [] class = "[a-zA-Z-:]"     -> isLetter(c) \/ c \in {"-", ":"}

\* \b between text[i] and text[i + 1]: one of the two is a word character
\* and the other is not (or is missing).
wordBoundaryAfter(text, i) ==
    LET before == i >= 1 /\ isWord(text[i])
        after  == i + 1 <= Len(text) /\ isWord(text[i + 1])
    IN  before # after

\* Does text hold the characters of word from index i on?
holdsAt(text, i, word) ==
    /\ i + Len(word) - 1 <= Len(text)
    /\ \A k \in DOMAIN word : text[i + k - 1] = word[k]

\* The first index from i on where text holds word; 0 when there is none.
firstAt(text, i, word) ==
    IF \E j \in i..Len(text) : holdsAt(text, j, word)
    THEN CHOOSE j \in i..Len(text) :
            /\ holdsAt(text, j, word)
            /\ \A k \in i..(j - 1) : ~holdsAt(text, k, word)
    ELSE 0

\* A greedy repetition of a character class from index i on: the last index
\* of the longest run of characters of the class; i - 1 when text[i] is none.
runEnd(text, i, class) ==
    CHOOSE e \in (i - 1)..Len(text) :
        /\ \A k \in i..e : inClass(class, text[k])
        /\ e < Len(text) => ~inClass(class, text[e + 1])

\* \d+ from index i on: the last index of the run of digits; i - 1 when
\* text[i] is no digit.
RECURSIVE digitsEnd(_, _)
digitsEnd(text, i) ==
    IF i <= Len(text) /\ isDigit(text[i]) THEN digitsEnd(text, i + 1) ELSE i - 1

\* .*$ (with the m flag) from index i on: the last index of the line.
RECURSIVE lineEnd(_, _)
lineEnd(text, i) ==
    IF i <= Len(text) /\ ~isLineTerminator(text[i]) THEN lineEnd(text, i + 1)
    ELSE i - 1

\* open[\s\S]*?close at index i: the last index of the match, 0 when there
\* is none.  The lazy repetition ends at the first close after open.
delimitedEnd(text, i, open, close) ==
    IF holdsAt(text, i, open) /\ firstAt(text, i + Len(open), close) # 0
    THEN firstAt(text, i + Len(open), close) + Len(close) - 1
    ELSE 0

\* /(\/\*[\s\S]*?\*\/|\/\/.*$)/gm at index i: the last index of the match,
\* 0 when there is none.  A block comment runs to the first closing mark; a
\* line comment to the end of its line.
commentEnd(text, i) ==
    IF delimitedEnd(text, i, <<"/", "*">>, <<"*", "/">>) # 0
    THEN delimitedEnd(text, i, <<"/", "*">>, <<"*", "/">>)
    ELSE IF holdsAt(text, i, <<"/", "/">>)
    THEN lineEnd(text, i + 2)
    ELSE 0

\* ((?:\\.|(?!\1).)*)\1 from index j on, the opening quote being q: the
\* index of the closing quote, 0 when there is none.  The alternatives are
\* tried in the expression's order: an escaped character, any character but
\* the quote, then the end of the repetition.
RECURSIVE stringBody(_, _, _)
stringBody(text, q, j) ==
    IF j > Len(text) THEN 0
    ELSE LET escaped == IF /\ text[j] = "\\"
                           /\ j + 1 <= Len(text)
                           /\ ~isLineTerminator(text[j + 1])
                        THEN stringBody(text, q, j + 2) ELSE 0
             plain   == IF text[j] # q /\ ~isLineTerminator(text[j])
                        THEN stringBody(text, q, j + 1) ELSE 0
         IN  IF escaped # 0 THEN escaped
             ELSE IF plain # 0 THEN plain
             ELSE IF text[j] = q THEN j
             ELSE 0

\* ['"`]: the quotes that open a string.
quotes == {"'", "\"", BACKTICK}

\* /(['"`])((?:\\.|(?!\1).)*)\1/g at index i.
stringEnd(text, i) ==
    IF text[i] \in quotes THEN stringBody(text, text[i], i + 1) ELSE 0

\* /\b(\d+(\.\d+)?)\b/g at index i: the digits, with a fractional part when
\* a word boundary follows it, without it when a word boundary follows them.
numberEnd(text, i) ==
    IF ~(isDigit(text[i]) /\ wordBoundaryAfter(text, i - 1)) THEN 0
    ELSE LET d == digitsEnd(text, i)
             f == IF d + 2 <= Len(text) /\ text[d + 1] = "." /\ isDigit(text[d + 2])
                  THEN digitsEnd(text, d + 2) ELSE 0
         IN  IF f # 0 /\ wordBoundaryAfter(text, f) THEN f
             ELSE IF wordBoundaryAfter(text, d) THEN d
             ELSE 0

keywords ==
    << <<"c", "o", "n", "s", "t">>,
       <<"l", "e", "t">>,
       <<"v", "a", "r">>,
       <<"f", "u", "n", "c", "t", "i", "o", "n">>,
       <<"r", "e", "t", "u", "r", "n">>,
       <<"i", "f">>,
       <<"e", "l", "s", "e">>,
       <<"f", "o", "r">>,
       <<"w", "h", "i", "l", "e">>,
       <<"s", "w", "i", "t", "c", "h">>,
       <<"c", "a", "s", "e">>,
       <<"b", "r", "e", "a", "k">>,
       <<"n", "e", "w">>,
       <<"c", "l", "a", "s", "s">>,
       <<"e", "x", "t", "e", "n", "d", "s">>,
       <<"i", "m", "p", "o", "r", "t">>,
       <<"f", "r", "o", "m">>,
       <<"e", "x", "p", "o", "r", "t">>,
       <<"d", "e", "f", "a", "u", "l", "t">>,
       <<"t", "r", "y">>,
       <<"c", "a", "t", "c", "h">> >>

\* /\b(const|let|...|catch)\b/g at index i.
keywordEnd(text, i) ==
    LET fits(k) == /\ holdsAt(text, i, keywords[k])
                   /\ wordBoundaryAfter(text, i + Len(keywords[k]) - 1)
    IN  IF wordBoundaryAfter(text, i - 1) /\ \E k \in DOMAIN keywords : fits(k)
        THEN LET k == CHOOSE k \in DOMAIN keywords :
                        fits(k) /\ \A l \in 1..(k - 1) : ~fits(l)
             IN  i + Len(keywords[k]) - 1
        ELSE 0

\* (?=\s*c) after index e: the white space that follows is passed over and
\* the character c is next.
followedBy(text, e, c) ==
    LET w == runEnd(text, e + 1, "\\s")
    IN  w + 1 <= Len(text) /\ text[w + 1] = c

\* /([.#]?[A-Za-z0-9\-_]+)(?=\s*\{)/g at index i: a dot or a hash, or
\* neither, and the longest run of name characters, before an opening brace.
selectorEnd(text, i) ==
    LET from == IF text[i] \in {".", "#"} THEN i + 1 ELSE i
        e    == runEnd(text, from, "[A-Za-z0-9\\-_]")
    IN  IF e >= from /\ followedBy(text, e, "{") THEN e ELSE 0

\* /([a-z-]+)(?=\s*:)/g at index i.
propertyEnd(text, i) ==
    LET e == runEnd(text, i, "[a-z-]")
    IN  IF e >= i /\ followedBy(text, e, ":") THEN e ELSE 0

\* /:\s*([^;}\n]+)/g at index i: where group 1 starts, 0 when the
\* expression does not match.  \s* takes the white space after the colon and
\* gives back as much of it as group 1 needs to hold one character.
valueStart(text, i) ==
    IF text[i] # ":" THEN 0
    ELSE LET w     == runEnd(text, i + 1, "\\s")
             Fit(p) == p <= Len(text) /\ inClass("[^;}\\n]", text[p])
         IN  IF \E p \in (i + 1)..(w + 1) : Fit(p)
             THEN CHOOSE p \in (i + 1)..(w + 1) :
                    Fit(p) /\ \A q \in (p + 1)..(w + 1) : ~Fit(q)
             ELSE 0

valueEnd(text, i) ==
    IF valueStart(text, i) = 0 THEN 0
    ELSE runEnd(text, valueStart(text, i), "[^;}\\n]")

\* (px|em|rem|%)
units == << <<"p", "x">>, <<"e", "m">>, <<"r", "e", "m">>, <<"%">> >>

\* /(\d+)(px|em|rem|%)/g at index i: the last index of the digits, 0 when
\* the expression does not match.
unitDigitsEnd(text, i) ==
    LET d == digitsEnd(text, i)
    IN  IF d >= i /\ \E u \in DOMAIN units : holdsAt(text, d + 1, units[u])
        THEN d ELSE 0

unitEnd(text, i) ==
    LET d == unitDigitsEnd(text, i)
    IN  IF d = 0 THEN 0
        ELSE LET u == CHOOSE u \in DOMAIN units :
                        /\ holdsAt(text, d + 1, units[u])
                        /\ \A v \in 1..(u - 1) : ~holdsAt(text, d + 1, units[v])
             IN  d + Len(units[u])

\* /(&lt;\/?[a-zA-Z0-9\-]+)([^&]*?)(&gt;)/g at index i: the last index of
\* group 1, 0 when the expression does not match.  Group 2 runs to the first
\* ampersand, which must open &gt;.
tagNameEnd(text, i) ==
    IF ~holdsAt(text, i, <<"&", "l", "t", ";">>) THEN 0
    ELSE LET from == IF holdsAt(text, i + 4, <<"/">>) THEN i + 5 ELSE i + 4
             e    == runEnd(text, from, "[a-zA-Z0-9\\-]")
             amp  == firstAt(text, e + 1, <<"&">>)
         IN  IF e >= from /\ amp # 0 /\ holdsAt(text, amp, <<"&", "g", "t", ";">>) THEN e ELSE 0

tagEnd(text, i) ==
    IF tagNameEnd(text, i) = 0 THEN 0
    ELSE firstAt(text, tagNameEnd(text, i) + 1, <<"&">>) + 3

\* /([a-zA-Z-:]+)(="[^"]*")?/g at index i: the last index of group 1, 0
\* when the expression does not match.
attrNameEnd(text, i) ==
    LET e == runEnd(text, i, "[a-zA-Z-:]")
    IN  IF e >= i THEN e ELSE 0

attrEnd(text, i) ==
    LET e == attrNameEnd(text, i)
    IN  IF e = 0 THEN 0
        ELSE IF holdsAt(text, e + 1, <<"=", "\"">>) /\ firstAt(text, e + 3, <<"\"">>) # 0
        THEN firstAt(text, e + 3, <<"\"">>)
        ELSE e

\* /(&lt;script[\s\S]*?&gt;)([\s\S]*?)(&lt;\/script&gt;)/g at index i: the
\* last index of group 1, 0 when the expression does not match.
scriptOpenEnd(text, i) ==
    LET open == delimitedEnd(text, i, <<"&", "l", "t", ";", "s", "c", "r", "i", "p", "t">>, <<"&", "g", "t", ";">>)
    IN  IF open # 0 /\ firstAt(text, open + 1, <<"&", "l", "t", ";", "/", "s", "c", "r", "i", "p", "t", "&", "g", "t", ";">>) # 0
        THEN open ELSE 0

\* Where group 3 of that expression starts.
scriptClose(text, i) == firstAt(text, scriptOpenEnd(text, i) + 1, <<"&", "l", "t", ";", "/", "s", "c", "r", "i", "p", "t", "&", "g", "t", ";">>)

\* The rules of highlightJS, of highlightCSS and of highlightHTML, in their
\* order, and the rule of the replace inside highlightHTML's tag rule.
rules == <<"comment", "string", "number", "keyword">>

cssRules == <<"cssComment", "selector", "property", "value", "unit">>

htmlRules == <<"htmlComment", "tag", "script">>

\* The last index of the match of a rule's expression at index i; 0 when it
\* does not match there.
matchEnd(rule, text, i) ==
    CASE rule = "comment"     -> commentEnd(text, i)
      [] rule = "string"      -> stringEnd(text, i)
      [] rule = "number"      -> numberEnd(text, i)
      [] rule = "keyword"     -> keywordEnd(text, i)
      [] rule = "cssComment"  -> delimitedEnd(text, i, <<"/", "*">>, <<"*", "/">>)
      [] rule = "selector"    -> selectorEnd(text, i)
      [] rule = "property"    -> propertyEnd(text, i)
      [] rule = "value"       -> valueEnd(text, i)
      [] rule = "unit"        -> unitEnd(text, i)
      [] rule = "htmlComment" -> delimitedEnd(text, i, <<"&", "l", "t", ";", "!", "-", "-">>, <<"-", "-", "&", "g", "t", ";">>)
      [] rule = "tag"         -> tagEnd(text, i)
      [] rule = "attribute"   -> attrEnd(text, i)
      [] rule = "script"      -> IF scriptOpenEnd(text, i) = 0 THEN 0
                                 ELSE scriptClose(text, i) + 14

\* The letters of a rule's token class.
tokenClass(rule) ==
    CASE rule \in {"comment", "cssComment", "htmlComment"} -> <<"c", "o", "m", "m", "e", "n", "t">>
      [] rule \in {"string", "value", "script"}            -> <<"s", "t", "r", "i", "n", "g">>
      [] rule \in {"number", "unit"}                       -> <<"n", "u", "m", "b", "e", "r">>
      [] rule = "keyword"                                  -> <<"k", "e", "y", "w", "o", "r", "d">>
      [] rule \in {"selector", "tag"}                      -> <<"t", "a", "g">>
      [] rule \in {"property", "attribute"}                -> <<"a", "t", "t", "r">>

\* '<span class="token-KIND">' + match + '</span>'
span(rule, match) ==
    <<"<", "s", "p", "a", "n", SP, "c", "l", "a", "s", "s", "=", "\"", "t", "o", "k", "e", "n", "-">>
        \o tokenClass(rule) \o <<"\"", ">">> \o match
        \o <<"<", "/", "s", "p", "a", "n", ">">>

\* String(n) for a number n >= 0.
RECURSIVE decimal(_)
decimal(n) ==
    LET digit == <<"0", "1", "2", "3", "4", "5", "6", "7", "8", "9">>[(n % 10) + 1]
    IN  IF n < 10 THEN <<digit>> ELSE decimal(n \div 10) \o <<digit>>

\* The first index from i on where the rule's expression matches; 0 when
\* it matches nowhere.
firstMatch(rule, text, i) ==
    IF \E j \in i..Len(text) : matchEnd(rule, text, j) # 0
    THEN CHOOSE j \in i..Len(text) :
            /\ matchEnd(rule, text, j) # 0
            /\ \A k \in i..(j - 1) : matchEnd(rule, text, k) = 0
    ELSE 0

\* What a rule puts in the place of its match text[j..e].  The function the
\* tag rule calls is declared (m, p1, tag, attrs, p4) and called with the
\* match, its three groups and the offset of the match: tag is group 2, attrs
\* is group 3 (&gt;) and p4 is the offset.
RECURSIVE replacement(_, _, _, _)

\* text.replace(<the rule's expression>, <its replacement>).
replaceWith(rule, text) ==
    LET RECURSIVE from(_)
        from(i) ==
            LET j == firstMatch(rule, text, i)
            IN  IF j = 0 THEN SubSeq(text, i, Len(text))
                ELSE SubSeq(text, i, j - 1)
                        \o replacement(rule, text, j, matchEnd(rule, text, j))
                        \o from(matchEnd(rule, text, j) + 1)
    IN  from(1)

\* attrs.replace(/([a-zA-Z-:]+)(="[^"]*")?/g, '<span class="token-attr">$1</span>$2')
attrsReplace(attrs) == replaceWith("attribute", attrs)

replacement(rule, text, j, e) ==
    CASE rule = "value" ->
            <<":", SP>> \o span(rule, escapeHtml(SubSeq(text, valueStart(text, j), e)))
      [] rule = "unit" ->
            span(rule, SubSeq(text, j, unitDigitsEnd(text, j)))
                \o SubSeq(text, unitDigitsEnd(text, j) + 1, e)
      [] rule = "tag" ->
            SubSeq(text, j, tagNameEnd(text, j))
                \o span(rule, SubSeq(text, tagNameEnd(text, j) + 1, e - 4))
                \o attrsReplace(SubSeq(text, e - 3, e))
                \o decimal(j - 1)
      [] rule = "attribute" ->
            span(rule, SubSeq(text, j, attrNameEnd(text, j)))
                \o SubSeq(text, attrNameEnd(text, j) + 1, e)
      [] rule = "script" ->
            SubSeq(text, j, scriptOpenEnd(text, j))
                \o span(rule, escapeHtml(SubSeq(text, scriptOpenEnd(text, j) + 1,
                                                scriptClose(text, j) - 1)))
                \o SubSeq(text, scriptClose(text, j), e)
      [] OTHER -> span(rule, SubSeq(text, j, e))

\* A rule set: each rule is applied to what the one before it returned.
RECURSIVE applyRules(_, _)
applyRules(rs, out) ==
    IF rs = <<>> THEN out
    ELSE applyRules(Tail(rs), replaceWith(Head(rs), out))

highlightJS(code) == applyRules(rules, escapeHtml(code))

highlightCSS(code) == applyRules(cssRules, escapeHtml(code))

highlightHTML(code) == applyRules(htmlRules, escapeHtml(code))

highlightByMode(code, mode) ==
    IF mode = "js" THEN highlightJS(code)
    ELSE IF mode = "css" THEN highlightCSS(code)
    ELSE IF mode = "html" THEN highlightHTML(code)
    ELSE escapeHtml(code)

----------------------------------------------------------------------------
(* Actions: one per event. *)

isOpenId(tabs, id) == \E i \in DOMAIN tabs : tabs[i].id = id
isOpenName(tabs, name) == \E i \in DOMAIN tabs : tabs[i].name = name

\* Does the handler load the text surface from a Tab, or clear it?
loads(op, threw) ==
    \/ op \in {"tabClick", "closeTab:active"}
    \/ (op \in {"openFileTab:new", "openFileTab:open"} /\ ~threw)

EditOps == {"input", "keydownTab", "keydownEnter"}

ClickOps == {"openFileTab:new", "openFileTab:open", "tabClick", "closeTab:absent",
             "closeTab:active", "closeTab:other", "newFile", "toggleFolder"}

\* The variables after a handler: the state record it returned, worked out
\* once.
ApplyTo(result, op, arg) == \E s \in {result} :
    /\ parsed
    /\ openTabs' = s.openTabs
    /\ activeTabId' = s.activeTabId
    /\ value' = s.value
    /\ selectionStart' = s.selectionStart
    /\ selectionEnd' = s.selectionEnd
    /\ datasetTabId' = s.datasetTabId
    /\ raf' = s.raf
    /\ frameCallbacks' = s.frameCallbacks
    /\ timers' = s.timers
    /\ gutter' = s.gutter
    /\ statusFile' = s.statusFile
    /\ statusMode' = s.statusMode
    /\ statusPos' = s.statusPos
    /\ lastOp' = [op |-> op, threw |-> s.threw, arg |-> arg]
    /\ edits' = IF op \in EditOps THEN edits + 1 ELSE edits
    /\ clicks' = IF op \in ClickOps THEN clicks + 1 ELSE clicks
    /\ switchedSince' =
            IF op = "keydownEnter" THEN Append(switchedSince, FALSE)
            ELSE IF op = "timeout" THEN Tail(switchedSince)
            ELSE IF loads(op, s.threw) /\ s.activeTabId # activeTabId
                 THEN [i \in DOMAIN switchedSince |-> TRUE]
            ELSE switchedSince
    /\ UNCHANGED <<parsed, updateStatusFileDefined, pushed, expanded,
                   highlightCode, highlightMode, highlighted>>

Apply(s, op) == ApplyTo(s, op, null)

\* The values Date.now() may have at a click of the new-file button: two
\* clicks may fall in the same millisecond.
Times == {1, 2}

\* `untitled-${Date.now()}.js`
untitled(now) == "untitled-" \o ToString(now) \o ".js"

\* A click on the new-file button: a file is added at the root of the tree
\* and the explorer is rendered again.  No Tab is opened.
NewFile == \E now \in Times :
    /\ parsed
    /\ clicks < MaxClicks
    /\ clicks' = clicks + 1
    /\ Len(pushed) < MaxNewFiles
    /\ pushed' = Append(pushed,
                        file(untitled(now), "js",
                             <<"/", "/", SP, "n", "e", "w", SP, "f", "i", "l", "e">>))
    /\ lastOp' = [op |-> "newFile", threw |-> FALSE, arg |-> <<untitled(now)>>]
    /\ UNCHANGED <<parsed, updateStatusFileDefined, expanded, openTabs,
                   activeTabId, value, selectionStart, selectionEnd,
                   datasetTabId, raf, frameCallbacks, timers, gutter,
                   statusFile, statusMode, statusPos, edits, switchedSince,
                   highlightCode, highlightMode, highlighted>>

\* A click on the label of a folder, or Enter or the space key on it: the
\* folder is folded or unfolded and the explorer is rendered again.
ToggleFolder == \E name \in Folders :
    /\ parsed
    /\ clicks < MaxClicks
    /\ clicks' = clicks + 1
    /\ expanded' = [expanded EXCEPT ![name] = ~expanded[name]]
    /\ lastOp' = [op |-> "toggleFolder", threw |-> FALSE, arg |-> <<name>>]
    /\ UNCHANGED <<parsed, updateStatusFileDefined, pushed, openTabs,
                   activeTabId, value, selectionStart, selectionEnd,
                   datasetTabId, raf, frameCallbacks, timers, gutter,
                   statusFile, statusMode, statusPos, edits, switchedSince,
                   highlightCode, highlightMode, highlighted>>

\* Characters the user types or pastes.
InputChars == {"a", TAB}

\* A click on a file of the explorer, or the Enter key on it.
\* lastOp keeps the name of the file that was opened.
OpenNode(node) == \E r \in Randoms :
    /\ clicks < MaxClicks
    /\ ApplyTo(openFileTab(St, node, r),
               IF isOpenName(openTabs, node.name) THEN "openFileTab:open"
               ELSE "openFileTab:new",
               <<node.name>>)

OpenFile == \E node \in Nodes : OpenNode(node)

OpenEditFile == \E node \in EditNodes : OpenNode(node)

\* A click on a tab of the tab strip.
TabClick == \E i \in DOMAIN openTabs :
    /\ clicks < MaxClicks
    /\ Apply(tabClick(St, openTabs[i]), "tabClick")

\* Which case of closeTab an id falls in.
closeCase(id) ==
    IF ~isOpenId(openTabs, id) THEN "closeTab:absent"
    ELSE IF id = activeTabId THEN "closeTab:active"
    ELSE "closeTab:other"

\* closeTab(id), with the id of an open tab or any other id.  lastOp keeps
\* the id of a tab that was closed.
CloseTab == \E id \in TabIds :
    /\ clicks < MaxClicks
    /\ ApplyTo(closeTab(St, id), closeCase(id),
               IF isOpenId(openTabs, id) THEN id ELSE null)

\* A click on the close mark of a tab of the tab strip.
CloseClick == \E i \in DOMAIN openTabs :
    /\ clicks < MaxClicks
    /\ ApplyTo(closeTab(St, openTabs[i].id), closeCase(openTabs[i].id),
               openTabs[i].id)

\* The user types a character: the input listener.
Input == \E c \in InputChars :
    /\ edits < MaxEdits
    /\ Apply(scheduleHighlight(nativeInsert(St, <<c>>)), "input")

KeyTab ==
    /\ edits < MaxEdits
    /\ Apply(keydownTab(St), "keydownTab")

KeyEnter ==
    /\ edits < MaxEdits
    /\ Apply(keydownEnter(St), "keydownEnter")

\* The zero-delay timer fires.
Timeout ==
    /\ timers # <<>>
    /\ Apply(deferredIndent([St EXCEPT !.timers = Tail(timers)], Head(timers)),
             "timeout")

\* An animation frame: a pending callback runs.
Frame == \E h \in frameCallbacks :
    \E s \in {[St EXCEPT !.frameCallbacks = frameCallbacks \ {h}]} :
        Apply(recompute(s), "frame")

\* The offsets a click or a caret key brings the selection to: those of the
\* first MaxOffset characters of the text.
Offsets == {p \in 0..Len(value) : p <= MaxOffset}

\* A click in the textarea, or a key released in it: the selection is where
\* the user put it, or where it was (the key did not move it), and the
\* listener shows the position of its start.
MoveCaret == \E a, b \in Offsets \cup {selectionStart, selectionEnd} :
    /\ a <= b
    /\ Apply(updateCaretStatus([St EXCEPT !.selectionStart = a, !.selectionEnd = b]),
             "caret")

\* A key is released in the textarea and the selection is where the key
\* handlers and the textarea left it: the keyup listener shows the position
\* of its start.
KeyUp == Apply(updateCaretStatus(St), "caret")

\* The window is resized.
Resize == Apply(scheduleHighlight(St), "resize")

\* No timer is pending and highlightByMode has not been called on its own.
NotCalled ==
    /\ switchedSince = <<>>
    /\ highlightCode = <<>>
    /\ highlightMode = ""
    /\ highlighted = <<>>

\* openFirst (app.js:393-410): the first file of the tree is opened.
openFirst(s, nodes, r) ==
    LET f == findFirstFile(nodes)
    IN  IF f # null THEN openFileTab(s, f, r) ELSE s

\* The page loads.  Where the browser accepts app.js, the script creates the
\* tree and opens its first file; where it rejects it (the regular
\* expression literal of highlightCSS, app.js:226, is not closed), no
\* statement of the script runs and no listener is registered.
Init == \E defined \in BOOLEAN, r \in Randoms, accepted \in BOOLEAN :
    LET s == IF accepted THEN openFirst(PageLoaded(defined), sampleProject, r)
             ELSE PageLoaded(defined)
    IN  /\ parsed = accepted
        /\ pushed = <<>>
        /\ expanded = allExpanded
        /\ updateStatusFileDefined = defined
        /\ openTabs = s.openTabs
        /\ activeTabId = s.activeTabId
        /\ value = s.value
        /\ selectionStart = s.selectionStart
        /\ selectionEnd = s.selectionEnd
        /\ datasetTabId = s.datasetTabId
        /\ raf = s.raf
        /\ frameCallbacks = s.frameCallbacks
        /\ timers = s.timers
        /\ gutter = s.gutter
        /\ statusFile = s.statusFile
        /\ statusMode = s.statusMode
        /\ statusPos = s.statusPos
        /\ lastOp = IF accepted
                    THEN [op |-> "openFileTab:new", threw |-> s.threw,
                          arg |-> <<findFirstFile(sampleProject).name>>]
                    ELSE [op |-> "rejected", threw |-> TRUE, arg |-> null]
        /\ edits = 0
        /\ clicks = 0
        /\ NotCalled

\* The tab strip and the explorer, with the frames that follow and the
\* keys released in the textarea (the Enter key that opened a file is
\* released there once loadTabContent's timer has moved the focus).
Next ==
    \/ NewFile
    \/ ToggleFolder
    \/ OpenFile
    \/ TabClick
    \/ CloseTab
    \/ KeyUp
    \/ Frame

Spec == Init /\ [][Next]_vars

\* An editing session on two files.
NextEdit ==
    \/ OpenEditFile
    \/ TabClick
    \/ CloseClick
    \/ Input
    \/ KeyTab
    \/ KeyEnter
    \/ Timeout
    \/ KeyUp
    \/ Frame

SpecEdit == Init /\ [][NextEdit]_vars

\* The characters of the texts the key-handling specification starts from.
Alphabet == {SP, NL, "a"}

\* Every text of those characters, and two lines indented with a tab
\* character.
Texts ==
    UNION {[1..n -> Alphabet] : n \in 0..MaxText}
        \cup {<<TAB, "a">>, <<SP, TAB, "a">>}

\* The key handlers on any text and selection: the first file is open, the
\* user has brought the text surface to some text, a frame has passed, a
\* selection has been made, and one editing keystroke of the session is left;
\* c clicks of the session are spent.
KeysAt(c) == \E defined \in BOOLEAN, text \in Texts :
    \E a \in 0..Len(text) : \E b \in a..Len(text) :
    LET s0 == openFirst(PageLoaded(defined), sampleProject, "r1")
        s1 == recompute([s0 EXCEPT !.value = text, !.frameCallbacks = {}])
        s  == updateCaretStatus([s1 EXCEPT !.selectionStart = a,
                                           !.selectionEnd = b])
    IN  /\ parsed = TRUE
        /\ pushed = <<>>
        /\ expanded = allExpanded
        /\ updateStatusFileDefined = defined
        /\ openTabs = s.openTabs
        /\ activeTabId = s.activeTabId
        /\ value = s.value
        /\ selectionStart = s.selectionStart
        /\ selectionEnd = s.selectionEnd
        /\ datasetTabId = s.datasetTabId
        /\ raf = s.raf
        /\ frameCallbacks = s.frameCallbacks
        /\ timers = s.timers
        /\ gutter = s.gutter
        /\ statusFile = s.statusFile
        /\ statusMode = s.statusMode
        /\ statusPos = s.statusPos
        /\ lastOp = [op |-> "caret", threw |-> FALSE, arg |-> null]
        /\ edits = MaxEdits - 1
        /\ clicks = c
        /\ NotCalled

InitKeys == KeysAt(0)

NextKeys ==
    \/ KeyTab
    \/ KeyEnter
    \/ Timeout
    \/ Frame
    \/ MoveCaret

SpecKeys == InitKeys /\ [][NextKeys]_vars

\* The Enter key on any text and selection, and the clicks that load another
\* Tab or clear the text surface before its deferred step runs: two clicks of
\* the session are left.
NextSwitch ==
    \/ KeyEnter
    \/ Timeout
    \/ OpenEditFile
    \/ TabClick
    \/ CloseClick
    \/ KeyUp
    \/ Frame

InitSwitch == KeysAt(MaxClicks - 2)

SpecSwitch == InitSwitch /\ [][NextSwitch]_vars

\* The editor's variables take the values of a state record; lastOp names
\* the handler that brought the page there and e is the count of keystrokes.
\* The script runs and the tree is the one it ships with.
EditorAt(s, op, e) ==
    /\ parsed = TRUE
    /\ pushed = <<>>
    /\ expanded = allExpanded
    /\ updateStatusFileDefined = s.defined
    /\ openTabs = s.openTabs
    /\ activeTabId = s.activeTabId
    /\ value = s.value
    /\ selectionStart = s.selectionStart
    /\ selectionEnd = s.selectionEnd
    /\ datasetTabId = s.datasetTabId
    /\ raf = s.raf
    /\ frameCallbacks = s.frameCallbacks
    /\ timers = s.timers
    /\ gutter = s.gutter
    /\ statusFile = s.statusFile
    /\ statusMode = s.statusMode
    /\ statusPos = s.statusPos
    /\ lastOp = [op |-> op, threw |-> s.threw, arg |-> null]
    /\ edits = e
    /\ clicks = 0

StartsAt(s, op, e) == EditorAt([s EXCEPT !.threw = FALSE], op, e) /\ NotCalled

\* The characters of those texts: a letter and the line break.
CaretAlphabet == {"a", NL}

\* The texts of lines of one letter, and the text of the caret example.
CaretTexts ==
    UNION {[1..n -> CaretAlphabet] : n \in 0..MaxCaretText}
        \cup {<<"a", NL, "b", NL, "c">>}

\* The gutter and the caret status on any text: the first file is open and
\* the user has pasted a text over the whole text surface, which leaves the
\* caret at its end and a recompute pending.
InitCaret == \E defined \in BOOLEAN, text \in CaretTexts :
    LET s0 == openFirst(PageLoaded(defined), sampleProject, "r1")
        s  == scheduleHighlight([s0 EXCEPT !.value = text,
                                           !.selectionStart = Len(text),
                                           !.selectionEnd = Len(text)])
    IN  StartsAt(s, "input", 1)

NextCaret ==
    \/ MoveCaret
    \/ Resize
    \/ TabClick
    \/ Frame

SpecCaret == InitCaret /\ [][NextCaret]_vars

\* Most pieces of a source text given to the tokenizer.
MaxPieces == 5

\* The pieces of the source texts: those of "const x = 5; // hi".
pieces ==
    << <<"c", "o", "n", "s", "t">>,
       <<SP, "x", SP, "=", SP>>,
       <<"5">>,
       <<";", SP>>,
       <<"/", "/", SP, "h", "i">> >>

\* The pieces named by a sequence of indexes, one after the other.
RECURSIVE join(_)
join(ixs) == IF ixs = <<>> THEN <<>> ELSE pieces[Head(ixs)] \o join(Tail(ixs))

\* Texts of the other languages, and JS texts with a template string and
\* with a line separator inside a line comment.
Samples ==
    { indexHtml, styleCss, appJs, readmeMd,
      <<"b", "o", "d", "y", SP, "{", SP, "c", "o", "l", "o", "r", ":", SP, "r", "e", "d", ";", SP, "}">>,
      <<"/", "*", SP, "a", SP, "*", "/", SP, "b", "{", "c", ":", "1", "p", "x", "}">>,
      <<"<", "!", "-", "-", SP, "a", SP, "-", "-", ">", "<", "p", SP, "i", "d", "=", "\"", "b", "\"", ">", "&", "<", "/", "p", ">">>,
      <<"x", SP, "=", SP, BACKTICK, "a", BACKTICK, ";">>,
      <<"/", "/", SP, "a", LS, "b">> }

Sources ==
    {join(ixs) : ixs \in UNION {[1..n -> DOMAIN pieces] : n \in 0..MaxPieces}}
        \cup Samples

\* The modes given to the tokenizer: the three with a rule set, one without.
Modes == {"js", "css", "html", "md"}

\* highlight(text, languageTag) called on its own, on any source text and
\* mode: the page has loaded and the arguments are chosen.
InitHighlight == \E defined \in BOOLEAN, code \in Sources, mode \in Modes :
    /\ EditorAt(openFirst(PageLoaded(defined), sampleProject, "r1"),
                "openFileTab:new", 0)
    /\ switchedSince = <<>>
    /\ highlightCode = code
    /\ highlightMode = mode
    /\ highlighted = <<>>

\* The call returns.
Highlight ==
    /\ lastOp.op # "highlightByMode"
    /\ highlighted' = highlightByMode(highlightCode, highlightMode)
    /\ lastOp' = [op |-> "highlightByMode", threw |-> FALSE, arg |-> null]
    /\ UNCHANGED <<parsed, updateStatusFileDefined, pushed, expanded,
                   openTabs, activeTabId, value, selectionStart, selectionEnd,
                   datasetTabId, raf, frameCallbacks, timers, gutter,
                   statusFile, statusMode, statusPos, edits, clicks,
                   switchedSince, highlightCode, highlightMode>>

NextHighlight == Highlight

SpecHighlight == InitHighlight /\ [][NextHighlight]_vars

\* The render pipeline's triggers and the frames, on the file opened first.
NextFrames ==
    \/ Input
    \/ KeyTab
    \/ KeyEnter
    \/ Timeout
    \/ TabClick
    \/ Resize
    \/ KeyUp
    \/ Frame

SpecFrames == Init /\ [][NextFrames]_vars

\* What a step of Frame shows of itself: a callback was requested, the step
\* is recorded as a frame and no handle is left in the slot.  No other handler
\* leaves the record of a frame, so a FrameRan step of NextFrames is a Frame
\* step, and both are enabled exactly while a callback is requested.
FrameRan ==
    /\ frameCallbacks # {}
    /\ lastOp' = [op |-> "frame", threw |-> FALSE, arg |-> null]
    /\ raf' = 0

\* The same, in a page whose animation frames keep coming.  scheduleHighlight
\* cancels and requests within one task, so once a recompute is requested
\* every rendering opportunity finds a callback to run: the frame cannot be
\* put off for ever.
SpecFramesFair ==
    Init /\ [][NextFrames]_vars /\ WF_<<raf, lastOp>>(FrameRan)

----------------------------------------------------------------------------
(* Claims. *)

activeIndex(tabs, id) == findIndex(tabs, LAMBDA t : t.id = id)

\* C1: no two open Tabs have the same name, and openFile on a node whose
\* name is that of an open Tab leaves the number of open Tabs unchanged and
\* makes that Tab the active one.
C1_OneTabPerName ==
    /\ [](\A i, j \in DOMAIN openTabs :
            openTabs[i].name = openTabs[j].name => i = j)
    /\ [][lastOp'.op = "openFileTab:open" =>
            /\ Len(openTabs') = Len(openTabs)
            /\ \E i \in DOMAIN openTabs :
                 /\ openTabs[i].name = lastOp'.arg[1]
                 /\ activeTabId' = openTabs[i].id]_vars

\* A file was opened again while a Tab opened after it was open: its Tab,
\* the first, is active.
C1_Witness ==
    /\ lastOp.op = "openFileTab:open"
    /\ Len(openTabs) >= 2
    /\ openTabs[1].name = lastOp.arg[1]
    /\ activeTabId = openTabs[1].id

\* activeTabId is null or the id of a Tab of the open sequence.
ActiveIsOpen == activeTabId = null \/ isOpenId(openTabs, activeTabId)

\* The step taken from a state follows the closing of a Tab.
Closed == lastOp.op \in {"closeTab:active", "closeTab:other"}

\* C2 (as claimed): in every reachable state activeTabId is null or the id
\* of a Tab of the open sequence, and it never holds the id of a closed Tab:
\* no step that follows the closing of a Tab makes that Tab's id the active
\* one.
C2_ActiveIsOpen ==
    /\ []ActiveIsOpen
    /\ [][Closed => activeTabId' # lastOp.arg]_vars

\* C3 (as claimed): after openFile, a tab switch, or closeTab of the active
\* Tab with another Tab left, the text surface's value is the content of the
\* Tab that is now active.
C3_SurfaceShowsActive ==
    (\/ lastOp.op \in {"openFileTab:new", "openFileTab:open", "tabClick"}
     \/ (lastOp.op = "closeTab:active" /\ openTabs # <<>>))
    => /\ isOpenId(openTabs, activeTabId)
       /\ value = openTabs[activeIndex(openTabs, activeTabId)].content

\* C4: closeTab of the active Tab, at place i, removes that Tab alone and
\* activates the Tab that was at place i-1, else the first of those that
\* remain, else none.
C4_CloseActive ==
    [][lastOp'.op = "closeTab:active" =>
        LET i == activeIndex(openTabs, activeTabId)
        IN  /\ i # 0
            /\ openTabs[i].id = lastOp'.arg
            /\ openTabs' = splice(openTabs, i)
            /\ activeTabId' = IF i > 1 THEN openTabs[i - 1].id
                              ELSE IF Len(openTabs) > 1 THEN openTabs[2].id
                              ELSE null]_vars

\* The third of three Tabs was active and was closed: the second one, not
\* the first, is active.
C4_Witness ==
    /\ lastOp.op = "closeTab:active"
    /\ Len(openTabs) = 2
    /\ activeTabId = openTabs[2].id

\* C5: closeTab of an open Tab that is not the active one leaves activeTabId
\* and the text surface as they are and schedules nothing; that Tab alone
\* leaves the open sequence.
C5_CloseOther ==
    [][lastOp'.op = "closeTab:other" =>
        /\ activeTabId' = activeTabId
        /\ value' = value
        /\ <<selectionStart', selectionEnd'>> = <<selectionStart, selectionEnd>>
        /\ <<raf', frameCallbacks'>> = <<raf, frameCallbacks>>
        /\ \E i \in DOMAIN openTabs :
             /\ openTabs[i].id = lastOp'.arg
             /\ openTabs[i].id # activeTabId
             /\ openTabs' = splice(openTabs, i)]_vars

\* A Tab that was not active was closed while no recompute was pending and
\* the text surface held text.
C5_Witness ==
    /\ lastOp.op = "closeTab:other"
    /\ isOpenId(openTabs, activeTabId)
    /\ raf = 0
    /\ value # <<>>

\* The zero-tabs state.
ZeroTabs ==
    /\ openTabs = <<>>
    /\ activeTabId = null
    /\ value = <<>>
    /\ gutter = <<1>>
    /\ statusFile = "No file"

\* C6: closing the only open Tab gives the zero-tabs state, and a recompute
\* that fires in that state leaves it as it is.
C6_CloseLast ==
    /\ []((lastOp.op \in {"closeTab:active", "closeTab:other"} /\ openTabs = <<>>)
            => ZeroTabs)
    /\ [][(ZeroTabs /\ lastOp'.op = "frame") => ZeroTabs']_vars

\* The only Tab was closed and the recompute pending since before the close
\* has fired.
C6_Witness ==
    /\ lastOp.op = "frame"
    /\ ZeroTabs
    /\ raf = 0

\* The content of the file node of a name.
nodeContent(name) == (CHOOSE n \in Files : n.name = name).content

\* C7 (as claimed): a Tab opened for a file name right after a Tab of that
\* name was closed has another id than the closed Tab, and the file node's
\* content.
C7_ReopenIsFresh ==
    [][(/\ lastOp.op \in {"closeTab:active", "closeTab:other"}
        /\ lastOp'.op = "openFileTab:new"
        /\ lastOp'.arg[1] = lastOp.arg[1])
       => LET t == openTabs'[Len(openTabs')]
          IN  /\ t.id # lastOp.arg
              /\ t.content = nodeContent(t.name)]_vars

\* C8: closeTab with an id that is not open changes nothing and raises no
\* error.
C8_CloseAbsent ==
    [][lastOp'.op = "closeTab:absent" =>
        /\ UNCHANGED <<openTabs, activeTabId, value, selectionStart, selectionEnd,
                       raf, frameCallbacks, gutter, statusFile>>
        /\ ~lastOp'.threw]_vars

\* closeTab was called with an id that is not open while Tabs were open.
C8_Witness ==
    /\ lastOp.op = "closeTab:absent"
    /\ ~lastOp.threw
    /\ Len(openTabs) >= 2

\* C9: the Tab key replaces the selection [start, end] by two spaces, puts
\* a collapsed caret at start + 2 and leaves a recompute pending; with a
\* collapsed selection the text grows by two characters.
C9_IndentInsertion ==
    [][lastOp'.op = "keydownTab" =>
        /\ value' = SubSeq(value, 1, selectionStart) \o <<" ", " ">>
                        \o SubSeq(value, selectionEnd + 1, Len(value))
        /\ selectionStart' = selectionStart + 2
        /\ selectionEnd' = selectionStart + 2
        /\ raf' # 0 /\ frameCallbacks' = {raf'}
        /\ (selectionStart = selectionEnd => Len(value') = Len(value) + 2)]_vars

\* The Tab key was pressed with a selection inside the text: the caret is
\* after the two spaces, before the text that followed the selection.
C9_Witness ==
    /\ lastOp.op = "keydownTab"
    /\ selectionStart = selectionEnd
    /\ selectionStart >= 3
    /\ selectionStart < Len(value)
    /\ raf # 0

\* Where the line that holds offset pos starts: after the last line break
\* before pos.
lineStart(text, pos) ==
    CHOOSE i \in 0..pos :
        /\ i = 0 \/ text[i] = NL
        /\ \A j \in (i + 1)..pos : text[j] # NL

\* The spaces and tabs that open text[from+1 .. to].
runBetween(text, from, to) ==
    LET k == CHOOSE n \in 0..(to - from) :
                /\ \A j \in 1..n : text[from + j] \in {SP, TAB}
                /\ n < to - from => text[from + n + 1] \notin {SP, TAB}
    IN  SubSeq(text, from + 1, from + k)

\* The deferred step inserts the captured run at the cursor it finds and
\* leaves the caret after it.
DeferredInsertion ==
    lastOp'.op = "timeout" =>
        /\ timers # <<>>
        /\ value' = SubSeq(value, 1, selectionStart) \o Head(timers)
                        \o SubSeq(value, selectionStart + 1, Len(value))
        /\ selectionStart' = selectionStart + Len(Head(timers))
        /\ selectionEnd' = selectionStart'
        /\ timers' = Tail(timers)

\* The Enter key captures a run before the line break is inserted.
EnterCaptures(run) ==
    lastOp'.op = "keydownEnter" =>
        /\ timers' = Append(timers, run)
        /\ value' = SubSeq(value, 1, selectionStart) \o <<NL>>
                        \o SubSeq(value, selectionEnd + 1, Len(value))
        /\ selectionStart' = selectionStart + 1

\* C10 (as claimed): the run captured on Enter is the whole leading
\* whitespace run of the line that holds the selection start, wherever the
\* selection start is on that line; the deferred step inserts it at the
\* cursor and moves the caret past it.
C10_CapturesWholeRun ==
    [][/\ EnterCaptures(runBetween(value, lineStart(value, selectionStart),
                                   Len(value)))
       /\ DeferredInsertion]_vars

\* C10 (amended): the run captured on Enter is the leading whitespace run of
\* the part of the line that precedes the selection start.
C10_CapturesRunBeforeCaret ==
    [][/\ EnterCaptures(runBetween(value, lineStart(value, selectionStart),
                                   selectionStart))
       /\ DeferredInsertion]_vars

\* Enter at the end of a line of four spaces: the new line has four spaces
\* and the caret is after them.
C10_Witness ==
    /\ lastOp.op = "timeout"
    /\ value = <<SP, SP, SP, SP, NL, SP, SP, SP, SP>>
    /\ selectionStart = 9
    /\ selectionEnd = 9

\* The content of the caret example.
aLFbLFc == <<"a", NL, "b", NL, "c">>

\* The caret status was computed by the handler that ran last.
CaretStatusFresh == lastOp.op \in {"caret", "frame"}

\* C11 (as claimed): for content "a\nb\nc" and the cursor at offset 3 the
\* caret computation yields line 2, column 1.
C11_OffsetThreeIsColumnOne ==
    (CaretStatusFresh /\ value = aLFbLFc /\ selectionStart = 3)
        => statusPos = <<2, 1>>

\* C11 (amended): for content "a\nb\nc" the caret computation yields line 2,
\* column 1 at offset 2 (just after "a\n") and line 2, column 2 at offset 3.
C11_CaretLineColumn ==
    (CaretStatusFresh /\ value = aLFbLFc)
        => /\ selectionStart = 2 => statusPos = <<2, 1>>
           /\ selectionStart = 3 => statusPos = <<2, 2>>

\* The user clicked at offset 3 of "a\nb\nc": the status shows line 2,
\* column 2.
C11_Witness ==
    /\ lastOp.op = "caret"
    /\ value = aLFbLFc
    /\ selectionStart = 3
    /\ statusPos = <<2, 2>>

\* The number of line breaks of a text.
newlines(text) == Cardinality({i \in DOMAIN text : text[i] = NL})

\* C12: after a recompute and after a tab load the gutter holds one entry
\* more than the text surface has line breaks, numbered 1, 2, ... in order;
\* so one entry for the empty text.
C12_GutterLines ==
    lastOp.op \in {"frame", "tabClick"} =>
        /\ Len(gutter) = newlines(value) + 1
        /\ \A i \in DOMAIN gutter : gutter[i] = i
        /\ value = <<>> => gutter = <<1>>

\* A frame has fired on "a\nb\nc": the gutter has three entries.
C12_Witness ==
    /\ lastOp.op = "frame"
    /\ value = aLFbLFc
    /\ gutter = <<1, 2, 3>>

\* Does text hold the characters of part, one after the other, somewhere?
contains(text, part) == \E i \in 1..(Len(text) + 1) : holdsAt(text, i, part)

\* The source text of the JS scenario.
jsScenario == join(<<1, 2, 3, 4, 5>>)

\* C13 (as claimed): highlight("const x = 5; // hi", 'js') holds the keyword
\* span around const, the number span around 5 and the comment span around
\* // hi, each with its tags as the rule inserted them.
C13_SpansIntact ==
    (lastOp.op = "highlightByMode" /\ highlightCode = jsScenario
        /\ highlightMode = "js")
    => /\ contains(highlighted, span("keyword", pieces[1]))
       /\ contains(highlighted, span("number", pieces[3]))
       /\ contains(highlighted, span("comment", pieces[5]))

\* The handlers that call scheduleHighlight.
Triggers == {"input", "keydownTab", "keydownEnter", "timeout", "resize", "tabClick"}

\* C14: at most one recompute is pending, and it is the one raf names; a
\* trigger leaves exactly one pending, so the one it found pending is gone
\* and cannot fire; a frame executes one pending recompute and leaves none
\* pending.
C14_OnePending ==
    /\ [](/\ Cardinality(frameCallbacks) <= 1
          /\ frameCallbacks = IF raf = 0 THEN {} ELSE {raf})
    /\ [][lastOp'.op \in Triggers => (raf' # 0 /\ frameCallbacks' = {raf'})]_vars
    /\ [][lastOp'.op = "frame" =>
            (frameCallbacks # {} /\ frameCallbacks' = {} /\ raf' = 0)]_vars

\* A resize arrived while the recompute of a keystroke was still pending
\* (the keystroke's text has not reached the Tab): one recompute is pending.
C14_Witness ==
    /\ lastOp.op = "resize"
    /\ edits = 1
    /\ raf # 0
    /\ isOpenId(openTabs, activeTabId)
    /\ openTabs[activeIndex(openTabs, activeTabId)].content # replaceTabs(value)

\* The content of the active Tab.
activeContent == openTabs[activeIndex(openTabs, activeTabId)].content

\* C15: a step of any handler but the recompute leaves the content of every
\* Tab that is open before and after it as it was.
C15_ContentOnlyByRecompute ==
    [][lastOp'.op # "frame" =>
        \A i \in DOMAIN openTabs, j \in DOMAIN openTabs' :
            openTabs[i].id = openTabs'[j].id =>
                openTabs'[j].content = openTabs[i].content]_vars

\* The deferred step of the Enter key has run with two Tabs open: the text
\* surface holds text the active Tab's content does not.
C15_Witness ==
    /\ lastOp.op = "timeout"
    /\ Len(openTabs) = 2
    /\ isOpenId(openTabs, activeTabId)
    /\ activeContent # replaceTabs(value)

\* C16: in every reachable state no open Tab's content holds a tab
\* character, whether the Tab was just created from a file node or its text
\* received typed or pasted tab characters.
C16_NoTabInContent ==
    \A i \in DOMAIN openTabs :
        \A k \in DOMAIN openTabs[i].content : openTabs[i].content[k] # TAB

\* A tab character was put into the text of the second of two Tabs and the
\* recompute has stored the text: the text surface holds the tab character,
\* the Tab's content two spaces more than the file it was created from.
C16_Witness ==
    /\ lastOp.op = "frame"
    /\ Len(openTabs) = 2
    /\ activeTabId = openTabs[2].id
    /\ \E k \in DOMAIN value : value[k] = TAB
    /\ Len(openTabs[2].content) = Len(value) + 1
    /\ Len(value) = Len(nodeContent(openTabs[2].name)) + 1

\* C17 (as claimed): when the user has typed into the text of the active Tab
\* and then clicks another Tab, the Tab that is left holds the typed text
\* (with its tabs expanded), so that it is there when the Tab is loaded
\* again.
C17_TypedTextKept ==
    [][(/\ lastOp.op = "input"
        /\ isOpenId(openTabs, activeTabId)
        /\ datasetTabId = activeTabId
        /\ lastOp'.op = "tabClick"
        /\ activeTabId' # activeTabId)
       => /\ isOpenId(openTabs', activeTabId)
          /\ openTabs'[activeIndex(openTabs', activeTabId)].content
                = replaceTabs(value)]_vars

\* C18 (as claimed): when a recompute writes the text surface's text into
\* the active Tab's content, the text surface was loaded from that Tab.
C18_WritesOwnText ==
    [][(lastOp'.op = "frame" /\ isOpenId(openTabs, activeTabId))
        => datasetTabId = activeTabId]_vars

\* C19 (as claimed): when another Tab has been loaded into the text
\* surface, or the text surface has been cleared, since the Enter key was
\* pressed, the deferred step of that key inserts nothing into the text
\* surface.
C19_IndentStaysInTab ==
    [][(/\ lastOp'.op = "timeout"
        /\ switchedSince # <<>>
        /\ Head(switchedSince))
       => value' = value]_vars

\* The active Tab's content is the text surface's text with its tabs
\* expanded, and the gutter has a line for each line of that text.
Synced ==
    /\ isOpenId(openTabs, activeTabId) => activeContent = replaceTabs(value)
    /\ Len(gutter) = newlines(value) + 1

\* C20: where frames keep firing, a pending recompute leads to a state in
\* which none is pending, the active Tab's content is the text surface's text
\* with every tab character replaced by two spaces, and the gutter's line
\* count is that of the text surface.
C20_EventuallyRecomputed == (raf # 0) ~> (raf = 0 /\ Synced)

\* A tab character was typed and a frame has fired: the active Tab's content
\* holds two spaces in its place.
C20_Witness ==
    /\ lastOp.op = "frame"
    /\ raf = 0
    /\ \E k \in DOMAIN value : value[k] = TAB
    /\ isOpenId(openTabs, activeTabId)
    /\ activeContent = replaceTabs(value)
    /\ activeContent # value

====
